---- MODULE Spec2Model ----
(***************************************************************************)
(* nostrdb-rs: the block tokenizer, the persisted block encoding, and the  *)
(* Rust wrappers Blocks / BlockIter / Block of src/src/block.rs.           *)
(*                                                                         *)
(* The wrappers are translated from block.rs.  The C library they bind     *)
(* (content parser, block iterator, LMDB store) is not among the sources;  *)
(* those parts follow spec.md sections 4-7 and are marked as such.         *)
(*                                                                         *)
(* Content is a sequence of one-character strings; offsets are 0-based.    *)
(***************************************************************************)
EXTENDS Integers, Sequences, FiniteSets, TLC

VARIABLES
    content,    \* the event's Content Buffer (sequence of characters)
    stored,     \* the Blocks value persisted for the event (words), or None
    txns,       \* txns[t]: "new" | "open" | "closed"
    handle,     \* the consumer's Blocks value, or None
    iters,      \* iters[i]: the consumer's BlockIter values, or None
    blk,        \* the consumer's last yielded Block, or None
    str,        \* the &str last returned by Block::as_str, or None
    out,        \* out[i]: what iterator i has yielded so far, as (type, text)
    ended,      \* ended[i]: iterator i has returned None from next()
    panicked,   \* the process was aborted by a panic
    versions,   \* block store: the committed values of the event's key
    snap,       \* snap[r]: the version reader r's transaction pinned, 0 = none
    obs,        \* obs[r]: what reader r's get_blocks calls returned
    writer,     \* the write path's put in progress, or None
    result,     \* what the last put_blocks returned: "none" | "Ok" | "Err"
    before,     \* the value stored when the last put began, and how many
                \* words that put had written when it ended
    puts        \* number of puts begun

vars == << content, stored, txns, handle, iters, blk, str, out, ended,
           panicked, versions, snap, obs, writer, result, before, puts >>

\* Option::None of a value; Option<&Transaction> is the set of at most one
\* transaction: NoTxn is None, { t } is Some(t)
None == [ none |-> TRUE ]
NoTxn == {}
Some(t) == { t }
\* the lifetime 'static: no transaction is borrowed
Static == {}

(***************************************************************************)
(* Characters                                                              *)
(***************************************************************************)
WordChars == {
    "a", "b", "c", "d", "e", "f", "g", "h", "i", "j", "k", "l", "m", "n", "o", "p", "q", "r",
    "s", "t", "u", "v", "w", "x", "y", "z", "0", "1", "2", "3", "4", "5", "6", "7", "8", "9" }

Bech32Chars == {
    "q", "p", "z", "r", "y", "9", "x", "8", "g", "f", "2", "t", "v", "d", "w", "0", "s", "3",
    "j", "n", "5", "4", "k", "h", "c", "e", "6", "m", "u", "a", "7", "l" }

IsWordChar(c) == c \in WordChars

\* s occurs in c at 1-based position i
MatchAt(c, i, s) ==
    /\ i + Len(s) - 1 <= Len(c)
    /\ \A k \in 1..Len(s) : c[i + k - 1] = s[k]

SetMin(S) == CHOOSE m \in S : \A k \in S : m <= k

\* length of the longest run of characters of S that starts at position i
RunLen(c, i, S) ==
    LET stops == { k \in i..Len(c) : c[k] \notin S }
    IN  IF stops = {} THEN (IF i <= Len(c) THEN Len(c) - i + 1 ELSE 0)
        ELSE SetMin(stops) - i

\* length of the longest run of characters outside S that starts at position i
RunLenNot(c, i, S) ==
    LET stops == { k \in i..Len(c) : c[k] \in S }
    IN  IF stops = {} THEN (IF i <= Len(c) THEN Len(c) - i + 1 ELSE 0)
        ELSE SetMin(stops) - i

\* A URL run ends at whitespace or a closing bracket-class character.
UrlDelims == { " ", ")", "]", "}", ">" }

(***************************************************************************)
(* BlockType tags of the encoding (block.rs, Block::blocktype)             *)
(***************************************************************************)
BLOCK_HASHTAG == 1
BLOCK_TEXT == 2
BLOCK_MENTION_INDEX == 3
BLOCK_MENTION_BECH32 == 4
BLOCK_URL == 5
BLOCK_INVOICE == 6

(***************************************************************************)
(* Lexer and Blockifier (spec.md 4.1, 4.2)                                 *)
(***************************************************************************)
NostrPrefix == << "n", "o", "s", "t", "r", ":" >>

UrlSchemes == { << "h", "t", "t", "p", ":", "/", "/" >>,
                << "h", "t", "t", "p", "s", ":", "/", "/" >> }

\* human-readable parts of the bech32 entity literals
Hrps == { << "n", "p", "u", "b" >>, << "n", "o", "t", "e" >>,
          << "n", "p", "r", "o", "f", "i", "l", "e" >>,
          << "n", "e", "v", "e", "n", "t" >> }

\* a bech32 literal ends with a checksum of six characters
Bech32ChecksumLen == 6

\* Rule 1: '#' followed by at least one word character and not preceded by
\* one.  The value is the length of the tag text (without '#'), 0 = no match.
HashtagLen(c, i) ==
    IF /\ c[i] = "#"
       /\ i + 1 <= Len(c) /\ IsWordChar(c[i + 1])
       /\ (i = 1 \/ ~IsWordChar(c[i - 1]))
    THEN RunLen(c, i + 1, WordChars)
    ELSE 0

\* Rule 2: scheme://... up to whitespace or a closing bracket.  The value is
\* the length of the URL including the scheme, 0 = no match.
UrlLen(c, i) ==
    LET ms == { s \in UrlSchemes : MatchAt(c, i, s) }
    IN  IF ms = {} THEN 0
        ELSE LET s == CHOOSE s \in ms : \A s2 \in ms : Len(s2) <= Len(s)
                 body == RunLenNot(c, i + Len(s), UrlDelims)
             IN  IF body = 0 THEN 0 ELSE Len(s) + body

\* Rule 3: "nostr:" followed by a bech32 literal <hrp>1<data>.  The value is
\* the length of the literal (without "nostr:"), 0 = no match; a literal too
\* short to hold its checksum does not validate.
MentionLen(c, i) ==
    IF ~MatchAt(c, i, NostrPrefix) THEN 0
    ELSE LET j  == i + Len(NostrPrefix)
             hs == { h \in Hrps : MatchAt(c, j, h \o << "1" >>) }
         IN  IF hs = {} THEN 0
             ELSE LET h == CHOOSE h \in hs : \A h2 \in hs : Len(h2) <= Len(h)
                      data == RunLen(c, j + Len(h) + 1, Bech32Chars)
                  IN  IF data < Bech32ChecksumLen THEN 0
                      ELSE Len(h) + 1 + data

\* a block descriptor: tag and the span (0-based offset, length) of its text
Desc(tag, start, len) == [ type_ |-> tag, start |-> start, len |-> len ]

\* the pending Text run [ts, i) is closed into one Text block
FlushText(acc, ts, i) ==
    IF ts < i THEN Append(acc, Desc(BLOCK_TEXT, ts - 1, i - ts)) ELSE acc

\* Single pass, left to right: i is the scan position, ts the start of the
\* pending Text run; a candidate that matches no rule extends the Text run.
RECURSIVE Blockify(_, _, _, _)
Blockify(c, i, ts, acc) ==
    IF i > Len(c) THEN FlushText(acc, ts, i)
    ELSE LET h == HashtagLen(c, i)
             u == UrlLen(c, i)
             m == MentionLen(c, i)
         IN  IF h > 0 THEN
                 Blockify(c, i + 1 + h, i + 1 + h,
                          Append(FlushText(acc, ts, i), Desc(BLOCK_HASHTAG, i, h)))
             ELSE IF u > 0 THEN
                 Blockify(c, i + u, i + u,
                          Append(FlushText(acc, ts, i), Desc(BLOCK_URL, i - 1, u)))
             ELSE IF m > 0 THEN
                 Blockify(c, i + Len(NostrPrefix) + m, i + Len(NostrPrefix) + m,
                          Append(FlushText(acc, ts, i),
                                 Desc(BLOCK_MENTION_BECH32, i - 1 + Len(NostrPrefix), m)))
             ELSE Blockify(c, i + 1, ts, acc)

ndb_parse_content(c) == Blockify(c, 1, 1, << >>)

(***************************************************************************)
(* Block Encoder (spec.md 4.3): three words per descriptor, in order       *)
(***************************************************************************)
RECURSIVE encode(_)
encode(blocks) ==
    IF blocks = << >> THEN << >>
    ELSE << blocks[1].type_, blocks[1].start, blocks[1].len >> \o encode(Tail(blocks))

(***************************************************************************)
(* Memory.  A pointer names the buffer it points into: prov is the read    *)
(* transaction whose snapshot holds the buffer (NoTxn: owned by the caller)*)
(* and data the buffer's contents.                                         *)
(***************************************************************************)
NULL == [ null |-> TRUE ]

Ptr(prov, data) == [ prov |-> prov, data |-> data ]

\* a byte read past the end of the buffer it was resolved against
OOB == "<oob>"

\* std::slice::from_raw_parts(ptr, len) where ptr = buf + off
from_raw_parts(buf, off, len) ==
    [ k \in 1..len |-> IF off + k <= Len(buf.data) THEN buf.data[off + k] ELSE OOB ]

(***************************************************************************)
(* The bound C iterator (spec.md 4.4).  ndb_block_iterator is              *)
(* { content, blocks, p, block }; p is the cursor into the descriptors.    *)
(***************************************************************************)
\* the block union: a string block, or a mention index
StrBlock(tag, buf, start, len) ==
    [ type_ |-> tag, str |-> [ buf |-> buf, off |-> start, len |-> len ] ]

IndexBlock(tag, idx) == [ type_ |-> tag, mention_index |-> idx ]

ndb_blocks_iterate_start(content_, blocks, iter) ==
    [ iter EXCEPT !.content = content_, !.blocks = blocks, !.p = 1 ]

\* Decodes the descriptor at the cursor.  A truncated descriptor or a span
\* that is out of range for the content yields NULL and leaves the cursor
\* where it is, so that every later call yields NULL too.
ndb_blocks_iterate_next(iter) ==
    LET w == iter.blocks.data
        p == iter.p
        n == Len(iter.content.data)
    IN  IF p > Len(w) THEN [ block |-> NULL, iter |-> iter ]
        ELSE IF w[p] = BLOCK_MENTION_INDEX THEN
            IF p + 1 > Len(w) THEN [ block |-> NULL, iter |-> iter ]
            ELSE LET b == IndexBlock(w[p], w[p + 1])
                 IN  [ block |-> b, iter |-> [ iter EXCEPT !.p = p + 2, !.block = b ] ]
        ELSE IF p + 2 > Len(w) THEN [ block |-> NULL, iter |-> iter ]
        ELSE IF w[p + 1] + w[p + 2] > n THEN [ block |-> NULL, iter |-> iter ]
        ELSE LET b == StrBlock(w[p], iter.content, w[p + 1], w[p + 2])
             IN  [ block |-> b, iter |-> [ iter EXCEPT !.p = p + 3, !.block = b ] ]

ndb_get_block_type(block) == block.type_

\* the string member of the union; a mention index has none
ndb_block_str(block) ==
    IF block.type_ \in { BLOCK_HASHTAG, BLOCK_TEXT, BLOCK_MENTION_BECH32,
                         BLOCK_URL, BLOCK_INVOICE }
    THEN block.str ELSE NULL

(***************************************************************************)
(* block.rs.  A value's txn field is Option<&'a Transaction> (None or a    *)
(* transaction); life is its lifetime parameter 'a, the set of             *)
(* transactions it borrows (Static = 'static, none).                       *)
(***************************************************************************)
Panic == "panic"

Block_new_transactional(ptr, txn) == [ ptr |-> ptr, txn |-> Some(txn), life |-> { txn } ]

Block_new_owned(ptr) == [ ptr |-> ptr, txn |-> NoTxn, life |-> Static ]

\* Block::new(ptr, txn: Option<&'a Transaction>) -> Block<'a>
Block_new(ptr, txn, life) == [ ptr |-> ptr, txn |-> txn, life |-> life ]

\* as_str with the slice one byte short
as_str_short(self) ==
    LET str_block == ndb_block_str(self.ptr)
    IN  IF str_block = NULL
        THEN [ text |-> << >>, buf |-> NULL, off |-> 0, life |-> self.life ]
        ELSE [ text |-> from_raw_parts(str_block.buf, str_block.off,
                                       IF str_block.len > 0 THEN str_block.len - 1 ELSE 0),
               buf  |-> str_block.buf,
               off  |-> str_block.off,
               life |-> self.life ]

\* as_str with the slice one byte long
as_str_long(self) ==
    LET str_block == ndb_block_str(self.ptr)
    IN  IF str_block = NULL
        THEN [ text |-> << >>, buf |-> NULL, off |-> 0, life |-> self.life ]
        ELSE [ text |-> from_raw_parts(str_block.buf, str_block.off, str_block.len + 1),
               buf  |-> str_block.buf,
               off  |-> str_block.off,
               life |-> self.life ]

\* as_str declared to return a &'static str
as_str_static(self) ==
    LET str_block == ndb_block_str(self.ptr)
    IN  IF str_block = NULL
        THEN [ text |-> << >>, buf |-> NULL, off |-> 0, life |-> Static ]
        ELSE [ text |-> from_raw_parts(str_block.buf, str_block.off, str_block.len),
               buf  |-> str_block.buf,
               off  |-> str_block.off,
               life |-> Static ]

\* Block::as_str(&self) -> &'a str
as_str(self) ==
    LET str_block == ndb_block_str(self.ptr)
    IN  IF str_block = NULL
        THEN [ text |-> << >>, buf |-> NULL, off |-> 0, life |-> self.life ]
        ELSE [ text |-> from_raw_parts(str_block.buf, str_block.off, str_block.len),
               buf  |-> str_block.buf,
               off  |-> str_block.off,
               life |-> self.life ]

\* blocktype with the arms of Hashtag and Text exchanged
blocktype_swapped(self) ==
    LET typ == ndb_get_block_type(self.ptr)
    IN  CASE typ = 1 -> "Text"
          [] typ = 2 -> "Hashtag"
          [] typ = 3 -> "MentionIndex"
          [] typ = 4 -> "MentionBech32"
          [] typ = 5 -> "Url"
          [] typ = 6 -> "Invoice"
          [] OTHER   -> Panic

\* blocktype matching the tags from 0, as the enum's own discriminants
blocktype_from_zero(self) ==
    LET typ == ndb_get_block_type(self.ptr)
    IN  CASE typ = 0 -> "Hashtag"
          [] typ = 1 -> "Text"
          [] typ = 2 -> "MentionIndex"
          [] typ = 3 -> "MentionBech32"
          [] typ = 4 -> "Url"
          [] typ = 5 -> "Invoice"
          [] OTHER   -> Panic

\* Block::blocktype(&self) -> BlockType
blocktype(self) ==
    LET typ == ndb_get_block_type(self.ptr)
    IN  CASE typ = 1 -> "Hashtag"
          [] typ = 2 -> "Text"
          [] typ = 3 -> "MentionIndex"
          [] typ = 4 -> "MentionBech32"
          [] typ = 5 -> "Url"
          [] typ = 6 -> "Invoice"
          [] OTHER   -> Panic

Blocks_new_transactional(ptr, txn) == [ ptr |-> ptr, txn |-> Some(txn), life |-> { txn } ]

Blocks_new_owned(ptr) == [ ptr |-> ptr, txn |-> NoTxn, life |-> Static ]

\* the iterator as the constructors fill it in before ndb_blocks_iterate_start
InitialIter(content_, blocks) ==
    [ content |-> content_, blocks |-> blocks, p |-> 0,
      block |-> IndexBlock(BLOCK_TEXT, 1) ]

\* BlockIter::new_transactional(content, blocks, txn: &'a Transaction) -> BlockIter<'a>
BlockIter_new_transactional(content_, blocks, txn, life) ==
    [ iter |-> ndb_blocks_iterate_start(content_, blocks, InitialIter(content_, blocks)),
      txn  |-> Some(txn),
      life |-> life ]

\* BlockIter::new_owned(content, blocks) -> BlockIter<'static>; Blocks::iter
\* returns it as a BlockIter<'a>
BlockIter_new_owned(content_, blocks, life) ==
    [ iter |-> ndb_blocks_iterate_start(content_, blocks, InitialIter(content_, blocks)),
      txn  |-> NoTxn,
      life |-> life ]

\* Blocks::iter(&self, note: &Note<'a>) -> BlockIter<'a>: 'a is a lifetime the
\* Blocks and the Note both live for, so the iterator borrows what either does.
Blocks_iter(self, note) ==
    LET content_ == note.content_ptr
        life == self.life \cup note.life
    IN  IF self.txn # NoTxn
        THEN LET txn == CHOOSE t \in self.txn : TRUE
             IN  BlockIter_new_transactional(content_, self.ptr, txn, life)
        ELSE BlockIter_new_owned(content_, self.ptr, life)

\* next advancing a copy of the iterator instead of the iterator
BlockIter_next_stale(self) ==
    LET r == ndb_blocks_iterate_next(self.iter)
    IN  IF r.block = NULL
        THEN [ item |-> None, self |-> self ]
        ELSE [ item |-> Block_new(r.block, self.txn, self.life), self |-> self ]

\* next yielding its blocks without the transaction
BlockIter_next_owned(self) ==
    LET r == ndb_blocks_iterate_next(self.iter)
        self2 == [ self EXCEPT !.iter = r.iter ]
    IN  IF r.block = NULL
        THEN [ item |-> None, self |-> self2 ]
        ELSE [ item |-> Block_new(r.block, NoTxn, self.life), self |-> self2 ]

\* <BlockIter as Iterator>::next(&mut self) -> Option<Block<'a>>
BlockIter_next(self) ==
    LET r == ndb_blocks_iterate_next(self.iter)
        self2 == [ self EXCEPT !.iter = r.iter ]
    IN  IF r.block = NULL
        THEN [ item |-> None, self |-> self2 ]
        ELSE [ item |-> Block_new(r.block, self.txn, self.life), self |-> self2 ]

ScenarioA == <<
    "#", "h", "a", "s", "h", "t", "a", "g", "s", ",", " ", "a", "r", "e", " ", "n",
    "e", "a", "t", " ", "n", "o", "s", "t", "r", ":", "n", "p", "r", "o", "f", "i",
    "l", "e", "1", "q", "q", "s", "r", "9", "c", "v", "z", "w", "c", "6", "5", "2",
    "r", "4", "m", "8", "3", "d", "8", "6", "y", "k", "p", "l", "r", "n", "m", "9",
    "d", "g", "5", "g", "w", "d", "v", "z", "z", "n", "8", "a", "m", "e", "a", "n",
    "l", "v", "u", "t", "3", "5", "w", "y", "3", "g", "p", "z", "3", "m", "h", "x",
    "u", "e", "6", "9", "u", "h", "h", "y", "e", "t", "v", "v", "9", "u", "j", "u",
    "e", "r", "p", "d", "4", "6", "h", "x", "t", "n", "f", "d", "u", "y", "u", "7",
    "5", "s", "w", " ", "h", "t", "t", "p", "s", ":", "/", "/", "g", "i", "t", "h",
    "u", "b", ".", "c", "o", "m", "/", "d", "a", "m", "u", "s", "-", "i", "o" >>


(***************************************************************************)
(* Bounds                                                                  *)
(***************************************************************************)
MaxTxns == 2
MaxIters == 2
MaxPieces == 3
MaxContentLen == 3
MaxWords == 5
MaxWordVal == 3
MaxReaders == 2
MaxGets == 2
MaxPuts == 2

Txns == 1..MaxTxns
IterIds == 1..MaxIters
Readers == 1..MaxReaders

(***************************************************************************)
(* The consumer's view: a Note of the event, obtained inside transaction t *)
(* (Ndb::get_note_by_id) or owned by the caller.                           *)
(***************************************************************************)
NoteIn(t) == [ content_ptr |-> Ptr(Some(t), content), life |-> { t } ]

OwnedNote == [ content_ptr |-> Ptr(NoTxn, content), life |-> Static ]

\* the transactions a live value of the consumer borrows
LifeOf(v) == IF v = None THEN Static ELSE v.life

Borrowed ==
    LifeOf(handle) \cup LifeOf(blk) \cup LifeOf(str)
        \cup UNION { LifeOf(iters[i]) : i \in IterIds }

StoreVars == << versions, snap, obs, writer, result, before, puts >>

(***************************************************************************)
(* Operations                                                              *)
(***************************************************************************)
\* Ndb::process_event: the ingest path tokenizes the content and persists
\* the encoding under the event's key
process_event ==
    /\ ~panicked /\ stored = None
    /\ stored' = [ words |-> encode(ndb_parse_content(content)) ]
    /\ UNCHANGED << content, txns, handle, iters, blk, str, out, ended, panicked, StoreVars >>

\* Transaction::new; transactions are numbered in the order they are opened
Transaction_new(t) ==
    /\ ~panicked /\ txns[t] = "new"
    /\ \A u \in Txns : u < t => txns[u] # "new"
    /\ txns' = [ txns EXCEPT ![t] = "open" ]
    /\ UNCHANGED << content, stored, handle, iters, blk, str, out, ended, panicked, StoreVars >>

\* The Transaction goes out of scope.  A value of type X<'a> holds a
\* &'a Transaction, so the borrow checker accepts this only when no live
\* value borrows the transaction.
Transaction_drop(t) ==
    /\ ~panicked /\ txns[t] = "open"
    /\ t \notin Borrowed
    /\ txns' = [ txns EXCEPT ![t] = "closed" ]
    /\ UNCHANGED << content, stored, handle, iters, blk, str, out, ended, panicked, StoreVars >>

\* Ndb::get_blocks_by_key(&txn, key)
get_blocks_by_key(t) ==
    /\ ~panicked /\ txns[t] = "open" /\ stored # None /\ handle = None
    /\ handle' = Blocks_new_transactional(Ptr(Some(t), stored.words), t)
    /\ UNCHANGED << content, stored, txns, iters, blk, str, out, ended, panicked, StoreVars >>

\* Blocks the caller owns: the content parsed outside of any transaction
owned_blocks ==
    /\ ~panicked /\ handle = None
    /\ handle' = Blocks_new_owned(Ptr(NoTxn, encode(ndb_parse_content(content))))
    /\ UNCHANGED << content, stored, txns, iters, blk, str, out, ended, panicked, StoreVars >>

\* let it = blocks.iter(&note); the iterator takes the first free slot
Iter(i, note) ==
    /\ ~panicked /\ handle # None /\ iters[i] = None
    /\ \A j \in IterIds : j < i => iters[j] # None
    /\ iters' = [ iters EXCEPT ![i] = Blocks_iter(handle, note) ]
    /\ out' = [ out EXCEPT ![i] = << >> ]
    /\ ended' = [ ended EXCEPT ![i] = FALSE ]
    /\ UNCHANGED << content, stored, txns, handle, blk, str, panicked, StoreVars >>

\* the Note was read inside transaction t
IterIn(i, t) ==
    /\ txns[t] = "open" /\ stored # None
    /\ Iter(i, NoteIn(t))

\* the Note is owned
IterOwned(i) == Iter(i, OwnedNote)

\* One turn of `for block in it { block.blocktype(); block.as_str(); }`:
\* the block and the &str of the turn before are out of scope; next(), and
\* for a yielded block its type and text.
Next_(i) ==
    /\ ~panicked /\ iters[i] # None
    /\ str' = None
    /\ LET r == BlockIter_next(iters[i])
       IN  /\ iters' = [ iters EXCEPT ![i] = r.self ]
           /\ IF r.item = None
              THEN /\ ended' = [ ended EXCEPT ![i] = TRUE ]
                   /\ blk' = None
                   /\ UNCHANGED << out, panicked >>
              ELSE /\ blk' = r.item
                   /\ IF blocktype(r.item) = Panic
                      THEN /\ panicked' = TRUE
                           /\ UNCHANGED << out, ended >>
                      ELSE /\ out' = [ out EXCEPT ![i] = Append(@,
                                         [ type |-> blocktype(r.item),
                                           text |-> as_str(r.item).text,
                                           off  |-> as_str(r.item).off,
                                           txn  |-> r.item.txn,
                                           after |-> ended[i] ]) ]
                           /\ UNCHANGED << ended, panicked >>
    /\ UNCHANGED << content, stored, txns, handle, StoreVars >>

\* let s = block.as_str(), the Block being a temporary
AsStr ==
    /\ ~panicked /\ blk # None
    /\ str' = as_str(blk)
    /\ blk' = None
    /\ UNCHANGED << content, stored, txns, handle, iters, out, ended, panicked, StoreVars >>

\* values going out of scope
DropBlocks ==
    /\ ~panicked /\ handle # None
    /\ handle' = None
    /\ UNCHANGED << content, stored, txns, iters, blk, str, out, ended, panicked, StoreVars >>

DropIter(i) ==
    /\ ~panicked /\ iters[i] # None
    /\ iters' = [ iters EXCEPT ![i] = None ]
    /\ out' = [ out EXCEPT ![i] = << >> ]
    /\ ended' = [ ended EXCEPT ![i] = FALSE ]
    /\ UNCHANGED << content, stored, txns, handle, blk, str, panicked, StoreVars >>

DropBlock ==
    /\ ~panicked /\ blk # None
    /\ blk' = None
    /\ UNCHANGED << content, stored, txns, handle, iters, str, out, ended, panicked, StoreVars >>

DropStr ==
    /\ ~panicked /\ str # None
    /\ str' = None
    /\ UNCHANGED << content, stored, txns, handle, iters, blk, out, ended, panicked, StoreVars >>

(***************************************************************************)
(* Spec: a consumer of one event's blocks across read transactions, with   *)
(* one iterator at a time                                                  *)
(***************************************************************************)
StoreIdle ==
    /\ versions = << None >>
    /\ snap = [ r \in Readers |-> 0 ]
    /\ obs = [ r \in Readers |-> << >> ]
    /\ writer = None /\ result = "none" /\ puts = 0
    /\ before = [ value |-> None, written |-> 0 ]

ConsumerInit ==
    /\ stored = None
    /\ txns = [ t \in Txns |-> "new" ]
    /\ handle = None
    /\ iters = [ i \in IterIds |-> None ]
    /\ blk = None /\ str = None
    /\ out = [ i \in IterIds |-> << >> ]
    /\ ended = [ i \in IterIds |-> FALSE ]
    /\ panicked = FALSE
    /\ StoreIdle

\* "#a ": a Hashtag block and a Text block; "a": a Text block
SmallContents == { << "#", "a", " " >>, << "a" >> }

\* contents of no, one, two and three blocks
IterContents ==
    { << >>, << "#", "b" >>, << "#", "b", " " >>,
      << "#", "b", " ", "h", "t", "t", "p", ":", "/", "/", "b" >> }

Init ==
    /\ content \in SmallContents
    /\ ConsumerInit

Next ==
    \/ process_event
    \/ \E t \in Txns : Transaction_new(t)
    \/ \E t \in Txns : Transaction_drop(t)
    \/ \E t \in Txns : get_blocks_by_key(t)
    \/ owned_blocks
    \/ \E t \in Txns : IterIn(1, t)
    \/ IterOwned(1)
    \/ Next_(1)
    \/ AsStr
    \/ DropBlocks
    \/ DropIter(1)
    \/ DropBlock
    \/ DropStr

Spec == Init /\ [][Next]_vars

(***************************************************************************)
(* SpecIter: several iterators over the Blocks read in one transaction     *)
(***************************************************************************)
InitIter ==
    /\ content \in IterContents
    /\ ConsumerInit

NextIter ==
    \/ process_event
    \/ Transaction_new(1)
    \/ get_blocks_by_key(1)
    \/ \E i \in IterIds : IterIn(i, 1)
    \/ \E i \in IterIds : IterOwned(i)
    \/ \E i \in IterIds : Next_(i)
    \/ \E i \in IterIds : DropIter(i)

SpecIter == InitIter /\ [][NextIter]_vars

\* what the consumer saw of a yielded block: its type and its text
Seen(o) == [ k \in 1..Len(o) |-> << o[k].type, o[k].text >> ]

IsPrefix(a, b) == Len(a) <= Len(b) /\ a = SubSeq(b, 1, Len(a))

\* the transactions whose snapshot a live value of the consumer points into
ProvOfBlocks == IF handle = None THEN NoTxn ELSE handle.ptr.prov

ProvOfIter(i) ==
    IF iters[i] = None THEN NoTxn
    ELSE iters[i].iter.content.prov \cup iters[i].iter.blocks.prov

ProvOfBlock ==
    IF blk = None \/ ndb_block_str(blk.ptr) = NULL THEN NoTxn
    ELSE ndb_block_str(blk.ptr).buf.prov

ProvOfStr == IF str = None \/ str.buf = NULL THEN NoTxn ELSE str.buf.prov

PointedInto ==
    ProvOfBlocks \cup ProvOfBlock \cup ProvOfStr \cup UNION { ProvOfIter(i) : i \in IterIds }

\* C6: no Blocks, BlockIter, Block or &str obtained through a transaction
\* exists in a state where that transaction is closed: the transaction cannot
\* be closed while such a value is live, so no next() or as_str() can read
\* the buffers of a closed transaction.
C6_NoUseAfterClose == \A t \in PointedInto : txns[t] = "open"

\* a &str, a Block's iterator and the Blocks of transaction 2 are live, and
\* transaction 1, whose values are gone, has been closed
C6_Witness ==
    /\ str # None /\ str.buf # NULL /\ str.buf.prov = Some(2)
    /\ iters[1] # None /\ iters[1].txn = Some(2)
    /\ handle # None /\ handle.txn = Some(2)
    /\ txns[1] = "closed" /\ txns[2] = "open"

\* the names of the BlockType enum, in the order of the tags 1..6
TypeNames == << "Hashtag", "Text", "MentionIndex", "MentionBech32", "Url", "Invoice" >>

\* what a well-formed encoding (three words per descriptor) holds
ExpectedOf(w) ==
    [ k \in 1..(Len(w) \div 3) |->
        << TypeNames[w[3 * k - 2]],
           SubSeq(content, w[3 * k - 1] + 1, w[3 * k - 1] + w[3 * k]) >> ]

\* C8: an iterator over a well-formed Blocks of n descriptors yields exactly
\* these n blocks, each once, in encoding order and at increasing offsets,
\* and then None; its cursor is just past what it has yielded, whatever other
\* iterators over the same Blocks have done.
C8_IterationOrder ==
    \A i \in IterIds : iters[i] # None =>
        LET exp == ExpectedOf(iters[i].iter.blocks.data)
        IN  /\ IsPrefix(Seen(out[i]), exp)
            /\ iters[i].iter.p = 3 * Len(out[i]) + 1
            /\ ended[i] => Seen(out[i]) = exp
            /\ \A k \in 1..(Len(out[i]) - 1) : out[i][k].off < out[i][k + 1].off
            /\ \A k \in 1..Len(out[i]) : ~out[i][k].after

\* one iterator has yielded all three blocks and then None; a second one,
\* made from the same Blocks after that, has yielded the first block
C8_Witness ==
    /\ iters[1] # None /\ ended[1] /\ Len(out[1]) = 3
    /\ iters[2] # None /\ Len(out[2]) = 1
    /\ iters[2].iter.blocks = iters[1].iter.blocks
    /\ Seen(out[2]) = << Seen(out[1])[1] >>

\* the transaction reference is handed on unchanged
C10_Propagated ==
    /\ handle # None => handle.txn = handle.ptr.prov
    /\ \A i \in IterIds : iters[i] # None =>
          /\ iters[i].txn = iters[i].iter.blocks.prov
          /\ \A k \in 1..Len(out[i]) : out[i][k].txn = iters[i].txn

\* C10: an iterator carries the transaction of the Blocks it was made from
\* (Some(T) or none), every yielded Block carries the transaction of its
\* iterator, and no step that makes, advances or drops a Blocks, BlockIter,
\* Block or &str changes a Transaction.
C10_TxnPropagation ==
    [][ /\ C10_Propagated'
        /\ (handle' # handle \/ iters' # iters \/ blk' # blk \/ str' # str)
              => txns' = txns ]_vars

\* an iterator made from the Blocks of transaction 2 has yielded both blocks
C10_Witness ==
    /\ iters[1] # None /\ iters[1].txn = Some(2) /\ Len(out[1]) = 2
    /\ blk # None /\ blk.txn = Some(2)
    /\ handle # None /\ handle.txn = Some(2)

(***************************************************************************)
(* SpecDecode: an iterator over any encoded Blocks value, well-formed or   *)
(* not, against a content of any length                                    *)
(***************************************************************************)
WordVals == 0..MaxWordVal

AnyWords == UNION { [ 1..n -> WordVals ] : n \in 0..MaxWords }

AnyContent == { SubSeq(<< "a", "b", "c", "d", "e", "f" >>, 1, n) : n \in 0..MaxContentLen }

InitDecode ==
    /\ content \in AnyContent
    /\ stored = None
    /\ txns = [ t \in Txns |-> "new" ]
    /\ \E w \in AnyWords : handle = Blocks_new_owned(Ptr(NoTxn, w))
    /\ iters = [ i \in IterIds |-> None ]
    /\ blk = None /\ str = None
    /\ out = [ i \in IterIds |-> << >> ]
    /\ ended = [ i \in IterIds |-> FALSE ]
    /\ panicked = FALSE
    /\ StoreIdle

NextDecode ==
    \/ IterOwned(1)
    \/ Next_(1)
    \/ AsStr

SpecDecode == InitDecode /\ [][NextDecode]_vars

\* C3: whatever the encoded Blocks value, no yielded block has text beyond
\* the content, here or in the Block and &str the consumer holds; and once
\* next() has returned no item, it yields no block again.
C3_NoOutOfBounds ==
    /\ \A i \in IterIds : \A k \in 1..Len(out[i]) :
          /\ out[i][k].off + Len(out[i][k].text) <= Len(content)
          /\ \A j \in 1..Len(out[i][k].text) : out[i][k].text[j] # OOB
          /\ ~out[i][k].after
    /\ blk # None => LET sb == as_str(blk)
                     IN  /\ sb.off + Len(sb.text) <= Len(content)
                         /\ \A j \in 1..Len(sb.text) : sb.text[j] # OOB
    /\ str # None => \A j \in 1..Len(str.text) : str.text[j] # OOB

\* a block was yielded, then a descriptor whose span is out of range or that
\* is truncated ended the iteration, with words left in the encoding
C3_Witness ==
    /\ iters[1] # None /\ ended[1]
    /\ Len(out[1]) = 1 /\ Len(out[1][1].text) = 1
    /\ iters[1].iter.p <= Len(iters[1].iter.blocks.data)

\* C7 as claimed: the tags 1..6 decode to the six BlockTypes, a distinct one
\* each, any other tag decodes to the error InvalidBlockType, and the
\* process is never aborted.
C7_DecodeNeverAborts ==
    /\ ~panicked
    /\ blk # None =>
          LET typ == ndb_get_block_type(blk.ptr)
          IN  IF typ \in 1..6 THEN blocktype(blk) = TypeNames[typ]
              ELSE blocktype(blk) = "InvalidBlockType"

(***************************************************************************)
(* SpecTok: one event is ingested and its persisted blocks are iterated    *)
(* inside a read transaction, for every content built from a few pieces    *)
(***************************************************************************)
ValidMention == << "n", "o", "s", "t", "r", ":", "n", "p", "u", "b", "1", "q", "q", "q", "q", "q", "q" >>
TruncatedMention == << "n", "o", "s", "t", "r", ":", "n", "p", "u", "b", "1", "q", "q" >>
SmallUrl == << "h", "t", "t", "p", ":", "/", "/", "b" >>

PlainPieces == { << "b" >>, << " " >>, << "," >>, << ")" >>, TruncatedMention }

Pieces == PlainPieces \cup { << "#" >>, ValidMention, SmallUrl }

RECURSIVE Concats(_, _)
Concats(P, n) ==
    IF n = 0 THEN { << >> }
    ELSE LET prev == Concats(P, n - 1)
         IN  prev \cup { a \o b : a \in prev, b \in P }

Contents == Concats(Pieces, MaxPieces) \cup { ScenarioA }

InitTok ==
    /\ content \in Contents
    /\ ConsumerInit

NextTok ==
    \/ process_event
    \/ Transaction_new(1)
    \/ get_blocks_by_key(1)
    \/ IterIn(1, 1)
    \/ Next_(1)

SpecTok == InitTok /\ [][NextTok]_vars

Mention_A == <<
    "n", "p", "r", "o", "f", "i", "l", "e", "1", "q", "q", "s", "r", "9", "c", "v",
    "z", "w", "c", "6", "5", "2", "r", "4", "m", "8", "3", "d", "8", "6", "y", "k",
    "p", "l", "r", "n", "m", "9", "d", "g", "5", "g", "w", "d", "v", "z", "z", "n",
    "8", "a", "m", "e", "a", "n", "l", "v", "u", "t", "3", "5", "w", "y", "3", "g",
    "p", "z", "3", "m", "h", "x", "u", "e", "6", "9", "u", "h", "h", "y", "e", "t",
    "v", "v", "9", "u", "j", "u", "e", "r", "p", "d", "4", "6", "h", "x", "t", "n",
    "f", "d", "u", "y", "u", "7", "5", "s", "w" >>

ExpectedA ==
    << << "Hashtag", << "h", "a", "s", "h", "t", "a", "g", "s" >> >>,
       << "Text", << ",", " ", "a", "r", "e", " ", "n", "e", "a", "t", " " >> >>,
       << "MentionBech32", Mention_A >>,
       << "Text", << " " >> >>,
       << "Url", << "h", "t", "t", "p", "s", ":", "/", "/", "g", "i", "t", "h", "u", "b", ".", "c", "o", "m", "/", "d", "a", "m", "u", "s", "-", "i", "o" >> >> >>

\* C1: the content of note_blocks_work yields exactly Hashtag "hashtags",
\* Text ", are neat ", MentionBech32 <the nprofile literal>, Text " ",
\* Url "https://github.com/damus-io", in this order, and no sixth block; and
\* for every content a Hashtag's text is what follows a '#' (the marker is not
\* part of it), a MentionBech32's text is what follows "nostr:", and a Url's
\* text starts with its scheme.
C1_ScenarioA ==
    \A i \in IterIds : iters[i] # None =>
        /\ content = ScenarioA =>
              /\ IsPrefix(Seen(out[i]), ExpectedA)
              /\ ended[i] => Seen(out[i]) = ExpectedA
        /\ \A k \in 1..Len(out[i]) :
              LET e == out[i][k]
              IN  /\ e.type = "Hashtag" =>
                        /\ e.off >= 1 /\ content[e.off] = "#"
                        /\ e.text # << >>
                        /\ \A j \in 1..Len(e.text) : e.text[j] \in WordChars
                  /\ e.type = "MentionBech32" =>
                        /\ e.off >= Len(NostrPrefix)
                        /\ MatchAt(content, e.off - Len(NostrPrefix) + 1, NostrPrefix)
                        /\ ~MatchAt(e.text, 1, NostrPrefix)
                  /\ e.type = "Url" =>
                        \E sch \in UrlSchemes : MatchAt(e.text, 1, sch)

C1_Witness ==
    /\ content = ScenarioA /\ iters[1] # None /\ ended[1]
    /\ Len(out[1]) = 5

\* the text of a block with the marker the tokenizer left out of it
Restored(e) ==
    IF e.type = "Hashtag" THEN << "#" >> \o e.text
    ELSE IF e.type = "MentionBech32" THEN NostrPrefix \o e.text
    ELSE e.text

RECURSIVE ConcatTexts(_)
ConcatTexts(o) == IF o = << >> THEN << >> ELSE o[1].text \o ConcatTexts(Tail(o))

RECURSIVE ConcatRestored(_)
ConcatRestored(o) == IF o = << >> THEN << >> ELSE Restored(o[1]) \o ConcatRestored(Tail(o))

\* the spans of the yielded texts, in order, do not overlap and lie in the content
SpansOrdered(o) ==
    /\ \A k \in 1..Len(o) : o[k].off + Len(o[k].text) <= Len(content)
    /\ \A k \in 1..(Len(o) - 1) : o[k].off + Len(o[k].text) <= o[k + 1].off

\* the spans of the yielded texts are contiguous from offset 0
SpansContiguous(o) ==
    /\ o # << >> => o[1].off = 0
    /\ \A k \in 1..(Len(o) - 1) : o[k].off + Len(o[k].text) = o[k + 1].off

Marked(o) == { k \in 1..Len(o) : o[k].type \in { "Hashtag", "MentionBech32" } }

PlainContents == Concats(PlainPieces, MaxPieces) \ { << >> }

\* C9: no two consecutive blocks are both Text; a content of plain pieces
\* only (words, blanks, punctuation, a truncated bech32 literal) and a lone
\* '#' each yield exactly one Text block spanning the input; empty content
\* yields no block.
C9_TextCoalesced ==
    \A i \in IterIds : iters[i] # None =>
        /\ \A k \in 1..(Len(out[i]) - 1) :
              ~(out[i][k].type = "Text" /\ out[i][k + 1].type = "Text")
        /\ (ended[i] /\ (content \in PlainContents \/ content = << "#" >>)) =>
              Seen(out[i]) = << << "Text", content >> >>
        /\ content = << >> => out[i] = << >>

C9_Witness ==
    /\ iters[1] # None /\ ended[1]
    /\ content = << "b" >> \o TruncatedMention \o << " " >>
    /\ Len(out[1]) = 1

(***************************************************************************)
(* SpecStore: the Block Store (spec.md 4.3, 5, 7).  versions is the        *)
(* sequence of values committed for the event's key, the last one current; *)
(* a read transaction pins the version that is current when it opens.      *)
(***************************************************************************)
ConsumerIdle ==
    /\ content = << >>
    /\ stored = None
    /\ txns = [ t \in Txns |-> "new" ]
    /\ handle = None
    /\ iters = [ i \in IterIds |-> None ]
    /\ blk = None /\ str = None
    /\ out = [ i \in IterIds |-> << >> ]
    /\ ended = [ i \in IterIds |-> FALSE ]
    /\ panicked = FALSE

ConsumerVars == << content, stored, txns, handle, iters, blk, str, out, ended, panicked >>

\* the encodings the ingest path writes: those of "#b" and of "b #b"
Encodings ==
    { encode(ndb_parse_content(<< "#", "b" >>)),
      encode(ndb_parse_content(<< "b", " ", "#", "b" >>)) }

Current(vs) == vs[Len(vs)]

\* store.get inside a read transaction that pinned version v
store_get(vs, v) == vs[v]

\* a write step that overwrites the current version in place
put_write_in_place(vs, w) ==
    LET cur == IF Current(vs) = None THEN << >> ELSE Current(vs).words
        mix == SubSeq(w.bytes, 1, w.n) \o SubSeq(cur, w.n + 1, Len(cur))
    IN  [ vs EXCEPT ![Len(vs)] = [ words |-> mix ] ]

\* a write step of a put: the words go to pages of the writer's own, the
\* committed versions are not touched
put_write(vs, w) == vs

\* the put commits: the new encoding becomes the current version, whole
put_commit(vs, w) == Append(vs, [ words |-> w.bytes ])

\* a failed put that leaves what it had written as the current version
put_fail_partial(vs, w) == Append(vs, [ words |-> SubSeq(w.bytes, 1, w.n) ])

\* the put fails (StoreUnavailable): what was written is discarded
put_fail(vs, w) == vs

TxnOpen(r) ==
    /\ snap[r] = 0
    /\ snap' = [ snap EXCEPT ![r] = Len(versions) ]
    /\ obs' = [ obs EXCEPT ![r] = << >> ]
    /\ UNCHANGED << ConsumerVars, versions, writer, result, before, puts >>

get_blocks(r) ==
    /\ snap[r] # 0 /\ Len(obs[r]) < MaxGets
    /\ obs' = [ obs EXCEPT ![r] = Append(@, store_get(versions, snap[r])) ]
    /\ UNCHANGED << ConsumerVars, versions, snap, writer, result, before, puts >>

TxnClose(r) ==
    /\ snap[r] # 0
    /\ snap' = [ snap EXCEPT ![r] = 0 ]
    /\ obs' = [ obs EXCEPT ![r] = << >> ]
    /\ UNCHANGED << ConsumerVars, versions, writer, result, before, puts >>

\* put_blocks(event_key, bytes) begins; there is one writer at a time
put_begin(bytes) ==
    /\ writer = None /\ puts < MaxPuts
    /\ writer' = [ bytes |-> bytes, n |-> 0 ]
    /\ before' = [ value |-> Current(versions), written |-> 0 ]
    /\ result' = "none"
    /\ puts' = puts + 1
    /\ UNCHANGED << ConsumerVars, versions, snap, obs >>

put_step ==
    /\ writer # None /\ writer.n < Len(writer.bytes)
    /\ writer' = [ writer EXCEPT !.n = @ + 1 ]
    /\ versions' = put_write(versions, writer')
    /\ before' = [ before EXCEPT !.written = writer'.n ]
    /\ UNCHANGED << ConsumerVars, snap, obs, result, puts >>

put_ok ==
    /\ writer # None /\ writer.n = Len(writer.bytes)
    /\ versions' = put_commit(versions, writer)
    /\ writer' = None
    /\ result' = "Ok"
    /\ UNCHANGED << ConsumerVars, snap, obs, before, puts >>

put_err ==
    /\ writer # None
    /\ versions' = put_fail(versions, writer)
    /\ writer' = None
    /\ result' = "Err"
    /\ UNCHANGED << ConsumerVars, snap, obs, before, puts >>

InitStore == ConsumerIdle /\ StoreIdle

NextStore ==
    \/ \E r \in Readers : TxnOpen(r)
    \/ \E r \in Readers : get_blocks(r)
    \/ \E r \in Readers : TxnClose(r)
    \/ \E b \in Encodings : put_begin(b)
    \/ put_step
    \/ put_ok
    \/ put_err

SpecStore == InitStore /\ [][NextStore]_vars

\* the values a get may return: none, or an encoding some put was given, whole
Complete == { None } \cup { [ words |-> b ] : b \in Encodings }

\* C4: whatever the interleaving of a put with open read transactions, every
\* get_blocks returns None or a complete encoding, never a prefix or a
\* mixture; and all the gets of one transaction return the same value, the
\* one that was current when the transaction opened.
C4_AtomicUpsert ==
    \A r \in Readers :
        /\ \A k \in 1..Len(obs[r]) :
              /\ obs[r][k] \in Complete
              /\ obs[r][k] = obs[r][1]
        /\ snap[r] # 0 => store_get(versions, snap[r]) \in Complete

\* a reader that opened before a put saw the old encoding before and after
\* the put replaced it, while a later reader sees the new one
C4_Witness ==
    /\ snap[1] # 0 /\ snap[2] # 0 /\ snap[1] < snap[2]
    /\ Len(obs[1]) = 2 /\ Len(obs[2]) = 1
    /\ obs[1][1] # None /\ obs[2][1] # None /\ obs[1][1] # obs[2][1]

\* C5: after a put_blocks that failed, the caller holds an error value and
\* the store holds for the key exactly what it held before that put.
C5_FailedPutKeepsPrior ==
    result = "Err" =>
        /\ writer = None
        /\ Current(versions) = before.value
        /\ \A r \in Readers :
              (snap[r] = Len(versions) /\ obs[r] # << >>) => obs[r][1] = before.value

\* a put failed after writing part of its encoding over a stored one
C5_Witness ==
    /\ result = "Err" /\ before.value # None /\ before.written = 2
    /\ \E r \in Readers : snap[r] = Len(versions) /\ obs[r] # << >>

====
